---- MODULE Spec2Model ----
(***************************************************************************)
(* A model of discoursegraphs.DiscourseDocumentGraph                       *)
(* (src/src/discoursegraphs/discoursegraph.py): a networkx MultiDiGraph    *)
(* whose nodes and edges carry a 'layers' attribute.                       *)
(*                                                                         *)
(* Python dicts are functions whose DOMAIN is the set of keys present.     *)
(* Dict OBJECTS that the code stores by reference live in `heap`: the      *)
(* attribute dict of a node is the very object the caller passed as        *)
(* attr_dict (add_node, line 122), so later writes to that object are      *)
(* writes to the node.  Edge attribute dicts are always fresh copies       *)
(* (lines 302-318) and are stored by value.                                *)
(***************************************************************************)
EXTENDS Integers, Sequences, FiniteSets, TLC

VARIABLES
    heap,      \* dict objects: reference -> dict
    node,      \* graph -> (node id -> reference of its attribute dict)   (G.node)
    adj,       \* graph -> (<<u, v, key>> -> edge attribute dict)         (G.succ / G.pred / G.adj)
    ns,        \* graph -> namespace string                               (G.ns)
    root,      \* graph -> root node id                                   (G.root)
    tokens,    \* graph -> sequence of token node ids                     (G.tokens)
    passed,    \* history: union of the layers arguments passed per node id / edge
    last,      \* history: the last API call, its arguments and its outcome
    gen,       \* the generator object a select_edges_by_edgetype call returned
    calls      \* history: number of API calls made so far

vars == <<heap, node, adj, ns, root, tokens, passed, last, gen, calls>>

----------------------------------------------------------------------------
(* Bounds of the model *)

MaxCalls == 3      \* number of API calls in a run
MaxKey == 1        \* caller-supplied edge keys are 0..MaxKey
MaxBulkCalls == 2  \* number of add_nodes_from / add_edges_from calls in a run
MaxBunch == 2      \* longest sequence given to add_nodes_from / add_edges_from
MaxTokens == 3     \* longest token sequence of a document
MaxMerges == 2     \* number of merge_graphs calls in a run
MaxPrecCalls == 2  \* number of calls in a run that builds precedence relations
MaxQueryEdges == 3 \* most edges of a graph the query functions are applied to
MaxQueries == 1    \* number of query calls in a run

----------------------------------------------------------------------------
(* Python values *)

NodeIds == {"n1", "n2"}
Layers == {"a", "b"}
NonStr == "<non-str>"              \* stands for an element that is not a str
NotASet == {"<not-a-set>"}         \* stands for a layers value that is not a set
Weights == {"w1", "w2"}
NoKey == -1                        \* key=None

None == <<"None", "None">>         \* attr_dict=None
NotADict == <<"None", "NotADict">> \* an attr_dict without .update()
CallerDicts == {<<"caller", "d1">>}   \* dict objects the caller keeps and passes again
OwnDict(g, n) == <<g, n>>          \* the dict object created for node n of graph g

EmptyDict == [k \in {} |-> {}]
Update(d, e) ==
    [k \in (DOMAIN d) \cup (DOMAIN e) |-> IF k \in DOMAIN e THEN e[k] ELSE d[k]]
Get(d, k, default) == IF k \in DOMAIN d THEN d[k] ELSE default
WithoutLayers(d) == [k \in (DOMAIN d) \ {"layers"} |-> d[k]]
LayersDict(layers) == [k \in {"layers"} |-> layers]

IsSetOfStr(layers) == layers # NotASet /\ NonStr \notin layers

(* A world is the part of the state the mutation API reads and writes. *)
World == [heap |-> heap, node |-> node, adj |-> adj]
Result(err, w) == [err |-> err, heap |-> w.heap, node |-> w.node, adj |-> w.adj]
AsWorld(r) == [heap |-> r.heap, node |-> r.node, adj |-> r.adj]

HasNode(w, g, n) == n \in DOMAIN w.node[g]
KeyDict(w, g, u, v) == {e[3] : e \in {x \in DOMAIN w.adj[g] : x[1] = u /\ x[2] = v}}

RECURSIVE UnusedKey(_, _)
UnusedKey(keydict, key) == IF key \in keydict THEN UnusedKey(keydict, key + 1) ELSE key
NewKey(keydict) == UnusedKey(keydict, Cardinality(keydict))

----------------------------------------------------------------------------
(* DiscourseDocumentGraph.add_node(n, layers, attr_dict=None, **attr) *)

add_node(w, g, n, layers, attr_dict, kw) ==
    IF ~IsSetOfStr(layers) THEN Result("AssertionError", w)
    ELSE IF attr_dict = NotADict THEN Result("AttributeError", w)
    ELSE
      LET attr == Update(kw, LayersDict(layers))
          ref  == IF attr_dict = None THEN OwnDict(g, n) ELSE attr_dict
          \* attr_dict.update(attr) writes into the caller's object
          h1   == IF attr_dict = None THEN w.heap
                  ELSE [w.heap EXCEPT ![ref] = Update(@, attr)]
          ad   == IF attr_dict = None THEN attr ELSE h1[ref]
      IN IF ~HasNode(w, g, n)
         THEN Result("none",
                [w EXCEPT !.heap = [h1 EXCEPT ![ref] = ad],
                          !.node = [w.node EXCEPT ![g] = Update(@, [x \in {n} |-> ref])]])
         ELSE
           LET nref == w.node[g][n]
               existing_layers == h1[nref]["layers"]
               all_layers == existing_layers \cup layers
               h2 == [h1 EXCEPT ![nref] = Update(Update(@, WithoutLayers(ad)),
                                                  LayersDict(all_layers))]
           IN Result("none", [w EXCEPT !.heap = h2])

----------------------------------------------------------------------------
(* DiscourseDocumentGraph.add_edge(u, v, layers, key=None, attr_dict=None, **attr) *)

EndpointsExistOnlySource(w, g, u, v) == HasNode(w, g, u)
EndpointsExist(w, g, u, v) == HasNode(w, g, u) /\ HasNode(w, g, v)

add_edge(w, g, u, v, layers, key, attr_dict, kw) ==
    IF ~IsSetOfStr(layers) THEN Result("AssertionError", w)
    ELSE IF attr_dict = NotADict THEN Result("AttributeError", w)
    ELSE
      LET attr == Update(kw, LayersDict(layers))
          h1   == IF attr_dict = None THEN w.heap
                  ELSE [w.heap EXCEPT ![attr_dict] = Update(@, attr)]
          ad   == IF attr_dict = None THEN attr ELSE h1[attr_dict]
          w1   == [w EXCEPT !.heap = h1]
      IN IF ~EndpointsExist(w, g, u, v)
         THEN Result("AssertionError", w1)
         ELSE
           LET keydict == KeyDict(w, g, u, v)
           IN IF keydict # {}
              THEN
                LET k == IF key = NoKey THEN NewKey(keydict) ELSE key
                    datadict == IF k \in keydict THEN w.adj[g][<<u, v, k>>] ELSE EmptyDict
                    existing_layers == Get(datadict, "layers", {})
                    all_layers == existing_layers \cup layers
                    newdict == Update(Update(datadict, ad), LayersDict(all_layers))
                IN Result("none",
                     [w1 EXCEPT !.adj = [w.adj EXCEPT ![g] =
                                           Update(@, [x \in {<<u, v, k>>} |-> newdict])]])
              ELSE
                LET k == IF key = NoKey THEN 0 ELSE key
                IN Result("none",
                     [w1 EXCEPT !.adj = [w.adj EXCEPT ![g] =
                                           Update(@, [x \in {<<u, v, k>>} |-> ad])]])

----------------------------------------------------------------------------
(* DiscourseDocumentGraph.add_nodes_from(nodes, **attr).
   nodes is a sequence of entries [id, ndict]; the loop body handles entry i
   and an exception leaves what the earlier entries did. *)

NodeAllLayersOnlyNew(existing_layers, layers) == layers
(* Lines 194-195: all_layers = existing_layers.union(layers) *)
NodeAllLayers(existing_layers, layers) == existing_layers \cup layers

(* Line 178, node_id, ndict = n: the dict of an entry.  An entry holds a dict
   of its own (ndict) or the attribute dict of a node of a graph (ref), an
   object that is read as it is when the loop reaches the entry. *)
EntryDict(w, n) == IF "ref" \in DOMAIN n THEN w.heap[n.ref] ELSE n.ndict

nodes_from_entry(w, g, n, kw) ==
    LET ndict == EntryDict(w, n)
    IN
    IF "layers" \notin DOMAIN ndict \/ ~IsSetOfStr(ndict["layers"])
    THEN Result("AssertionError", w)
    ELSE IF ~HasNode(w, g, n.id)
    THEN Result("none",
           [w EXCEPT !.heap = [w.heap EXCEPT ![OwnDict(g, n.id)] = Update(kw, ndict)],
                     !.node = [w.node EXCEPT ![g] =
                                 Update(@, [x \in {n.id} |-> OwnDict(g, n.id)])]])
    ELSE
      LET nref == w.node[g][n.id]
          existing_layers == w.heap[nref]["layers"]
          all_layers == NodeAllLayers(existing_layers, ndict["layers"])
      IN Result("none",
           [w EXCEPT !.heap = [w.heap EXCEPT ![nref] =
                                 Update(Update(Update(@, ndict), kw),
                                        LayersDict(all_layers))]])

RECURSIVE nodes_from_loop(_, _, _, _, _)
nodes_from_loop(w, g, nodes, kw, i) ==
    IF i > Len(nodes) THEN Result("none", w)
    ELSE LET r == nodes_from_entry(w, g, nodes[i], kw)
         IN IF r.err # "none" THEN r
            ELSE nodes_from_loop([heap |-> r.heap, node |-> r.node, adj |-> r.adj],
                                 g, nodes, kw, i + 1)

add_nodes_from(w, g, nodes, kw) == nodes_from_loop(w, g, nodes, kw, 1)

----------------------------------------------------------------------------
(* DiscourseDocumentGraph.add_edges_from(ebunch, attr_dict=None, **attr).
   An entry is [ne, u, v, key, dd]: a tuple of length ne, (u, v, dd) when
   ne = 3 (key is then NoKey) and (u, v, key, dd) when ne = 4.  shared is the
   dict that attr_dict names after attr_dict.update(attr). *)

AllLayersOnlyNew(existing_layers, new_layers) == new_layers
AllLayers(existing_layers, new_layers) == existing_layers \cup new_layers

edges_from_entry(w, g, e, shared) ==
    IF e.ne \notin {3, 4} THEN Result("AttributeError", w)
    ELSE IF "layers" \notin DOMAIN e.dd \/ ~IsSetOfStr(e.dd["layers"])
    THEN Result("AssertionError", w)
    ELSE
      LET layers == e.dd["layers"]
          additional_layers == Get(shared, "layers", {})
      IN IF additional_layers # {} /\ ~IsSetOfStr(additional_layers)
         THEN Result("AssertionError", w)
         ELSE
           LET new_layers == layers \cup additional_layers
               keydict == KeyDict(w, g, e.u, e.v)
               key == IF e.ne = 3 THEN NewKey(keydict) ELSE e.key
               exists == key \in keydict
               datadict == IF exists THEN w.adj[g][<<e.u, e.v, key>>] ELSE EmptyDict
               existing_layers == Get(datadict, "layers", {})
               \* datadict.update(attr_dict); datadict.update(dd): when the edge
               \* exists this writes into the edge's own dict
               updated == Update(Update(datadict, shared), e.dd)
               w1 == IF exists
                     THEN [w EXCEPT !.adj = [w.adj EXCEPT ![g] =
                                               [@ EXCEPT ![<<e.u, e.v, key>>] = updated]]]
                     ELSE w
               updated_attrs == WithoutLayers(updated)
               all_layers == AllLayers(existing_layers, new_layers)
           IN add_edge(w1, g, e.u, e.v, all_layers, key, None, updated_attrs)

RECURSIVE edges_from_loop(_, _, _, _, _)
edges_from_loop(w, g, ebunch, shared, i) ==
    IF i > Len(ebunch) THEN Result("none", w)
    ELSE LET r == edges_from_entry(w, g, ebunch[i], shared)
         IN IF r.err # "none" THEN r
            ELSE edges_from_loop([heap |-> r.heap, node |-> r.node, adj |-> r.adj],
                                 g, ebunch, shared, i + 1)

add_edges_from(w, g, ebunch, attr_dict, kw) ==
    IF attr_dict = NotADict THEN Result("AttributeError", w)
    ELSE
      LET h1 == IF attr_dict = None THEN w.heap
                ELSE [w.heap EXCEPT ![attr_dict] = Update(@, kw)]
          shared == IF attr_dict = None THEN kw ELSE h1[attr_dict]
      IN edges_from_loop([w EXCEPT !.heap = h1], g, ebunch, shared, 1)

----------------------------------------------------------------------------
(* DiscourseDocumentGraph.get_tokens(token_attrib): the (token id, token
   string) pairs of the document, in order.  Reading a token that is no node
   of the graph, or has no such attribute, raises KeyError. *)

TokenKey(nsg, token_attrib) == nsg \o ":" \o token_attrib
HasToken(w, g, d, i, token_attrib) ==
    /\ d.tokens[g][i] \in DOMAIN w.node[g]
    /\ TokenKey(d.ns[g], token_attrib) \in DOMAIN w.heap[w.node[g][d.tokens[g][i]]]
TokenStr(w, g, d, i, token_attrib) ==
    w.heap[w.node[g][d.tokens[g][i]]][TokenKey(d.ns[g], token_attrib)]

(* relabel_nodes(G, mapping, copy=False): every node id of G goes through the
   mapping, in the node table and in the endpoints of the edges; the attribute
   dicts stay the same objects.  The documents of this model never map two
   nodes of G to one id. *)
Relabelled(mapping, n) == IF n \in DOMAIN mapping THEN mapping[n] ELSE n
relabel_nodes(w, g, mapping) ==
    [w EXCEPT
       !.node = [w.node EXCEPT ![g] =
                   [m \in {Relabelled(mapping, n) : n \in DOMAIN w.node[g]} |->
                      w.node[g][CHOOSE n \in DOMAIN w.node[g] : Relabelled(mapping, n) = m]]],
       !.adj = [w.adj EXCEPT ![g] =
                   [x \in {<<Relabelled(mapping, e[1]), Relabelled(mapping, e[2]), e[3]>> :
                             e \in DOMAIN w.adj[g]} |->
                      w.adj[g][CHOOSE e \in DOMAIN w.adj[g] :
                                 <<Relabelled(mapping, e[1]), Relabelled(mapping, e[2]), e[3]>> = x]]]]

(* The elements of S in one order, for building a document edge by edge. *)
RECURSIVE SetToSeq(_)
SetToSeq(S) == IF S = {} THEN <<>>
               ELSE LET x == CHOOSE y \in S : TRUE IN <<x>> \o SetToSeq(S \ {x})

(* Iterating a dict or a set yields its elements once each, in an order the
   caller does not choose: every order is possible. *)
RECURSIVE Perms(_)
Perms(S) == IF S = {} THEN {<<>>}
            ELSE UNION {{<<x>> \o p : p \in Perms(S \ {x})} : x \in S}

(* G.edges() and G.out_edges_iter(n) walk the adjacency dicts: the edges of
   one source come together, and among them the edges to one target. *)
Grouped(s) ==
    \A i, j, k \in DOMAIN s :
       (i < j /\ j < k) =>
          /\ s[i][1] = s[k][1] => s[j][1] = s[i][1]
          /\ (s[i][1] = s[k][1] /\ s[i][2] = s[k][2]) => s[j][2] = s[i][2]
EdgeOrders(w, g) == {s \in Perms(DOMAIN w.adj[g]) : Grouped(s)}

(* G.nodes(data=True) and G.edges(data=True) as add_nodes_from / add_edges_from
   read them; order is the order in which G.nodes / G.edges yields them.  An
   entry of G.nodes(data=True) holds the node's attribute dict itself. *)
NodesData(w, g, order) ==
    [i \in 1 .. Len(order) |-> [id |-> order[i], ref |-> w.node[g][order[i]]]]
EdgesData(w, g, order) ==
    [i \in 1 .. Len(order) |->
       [ne |-> 3, u |-> order[i][1], v |-> order[i][2], key |-> NoKey,
        dd |-> w.adj[g][order[i]]]]

(* DiscourseDocumentGraph.merge_graphs(document_graph).  d holds ns and tokens
   of the two graphs; the loop compares token i of self with token i of
   document_graph and fills remote2local. *)
RECURSIVE merge_loop(_, _, _, _, _, _, _)
merge_loop(w, g, o, d, token_attrib, i, remote2local) ==
    IF i > Len(d.tokens[g]) THEN [err |-> "none", remote2local |-> remote2local]
    ELSE IF ~HasToken(w, g, d, i, token_attrib)
    THEN [err |-> "KeyError", remote2local |-> remote2local]
    ELSE IF i > Len(d.tokens[o])
    THEN [err |-> "IndexError", remote2local |-> remote2local]
    ELSE IF TokenStr(w, g, d, i, token_attrib) # TokenStr(w, o, d, i, "token")
    THEN [err |-> "ValueError", remote2local |-> remote2local]
    ELSE merge_loop(w, g, o, d, token_attrib, i + 1,
                    Update(remote2local, [x \in {d.tokens[o][i]} |-> d.tokens[g][i]]))

(* A merge that adds the nodes and edges of document_graph under their own ids. *)
merge_apply_without_relabel(w, g, o, remote2local, order) ==
    LET r == add_nodes_from(w, g, NodesData(w, o, order.nodes), EmptyDict)
    IN IF r.err # "none" THEN r
       ELSE add_edges_from(AsWorld(r), g, EdgesData(w, o, order.edges), None, EmptyDict)

(* A merge that renames the tokens of self to the ids of document_graph. *)
merge_apply_relabelling_self(w, g, o, remote2local, order) ==
    LET local2remote == [l \in {remote2local[x] : x \in DOMAIN remote2local} |->
                           CHOOSE x \in DOMAIN remote2local : remote2local[x] = l]
        w1 == relabel_nodes(w, g, local2remote)
        r == add_nodes_from(w1, g, NodesData(w1, o, order.nodes), EmptyDict)
    IN IF r.err # "none" THEN r
       ELSE add_edges_from(AsWorld(r), g, EdgesData(w1, o, order.edges), None, EmptyDict)

(* Lines 494-496: relabel document_graph, then add its nodes and its edges.
   order.nodes and order.edges are the orders in which document_graph yields
   its nodes and its edges, named by the ids they had before the relabelling. *)
merge_apply(w, g, o, remote2local, order) ==
    LET w1 == relabel_nodes(w, o, remote2local)
        nodes1 == [i \in 1 .. Len(order.nodes) |-> Relabelled(remote2local, order.nodes[i])]
        edges1 == [i \in 1 .. Len(order.edges) |->
                     <<Relabelled(remote2local, order.edges[i][1]),
                       Relabelled(remote2local, order.edges[i][2]), order.edges[i][3]>>]
        r == add_nodes_from(w1, g, NodesData(w1, o, nodes1), EmptyDict)
    IN IF r.err # "none" THEN r
       ELSE add_edges_from(AsWorld(r), g, EdgesData(w1, o, edges1), None, EmptyDict)

(* A merge that adds the nodes of document_graph before it compares tokens. *)
merge_graphs_adding_first(w, g, o, d, order) ==
    LET token_attrib == IF d.ns[g] = "tiger" THEN "word" ELSE "token"
    IN IF \E i \in 1 .. Len(d.tokens[o]) : ~HasToken(w, o, d, i, "token")
       THEN Result("KeyError", w)
       ELSE
         LET m == merge_loop(w, g, o, d, token_attrib, 1, EmptyDict)
         IN IF m.err # "none"
            THEN Result(m.err, AsWorld(add_nodes_from(w, g, NodesData(w, o, order.nodes),
                                                      EmptyDict)))
            ELSE merge_apply(w, g, o, m.remote2local, order)

merge_graphs(w, g, o, d, order) ==
    LET token_attrib == IF d.ns[g] = "tiger" THEN "word" ELSE "token"
    IN IF \E i \in 1 .. Len(d.tokens[o]) : ~HasToken(w, o, d, i, "token")
       THEN Result("KeyError", w)
       ELSE
         LET m == merge_loop(w, g, o, d, token_attrib, 1, EmptyDict)
         IN IF m.err # "none" THEN Result(m.err, w)
            ELSE merge_apply(w, g, o, m.remote2local, order)

----------------------------------------------------------------------------
(* DiscourseDocumentGraph.add_precedence_relations() *)

PrecedenceLayers(nsg) == {nsg, nsg \o ":precedence"}
(* class EdgeTypes(Enum): a member is a value of its own, equal to no str. *)
EdgeTypes ==
    [pointing_relation |-> "EdgeTypes.pointing_relation",
     dominance_relation |-> "EdgeTypes.dominance_relation",
     reverse_dominance_relation |-> "EdgeTypes.reverse_dominance_relation",
     spanning_relation |-> "EdgeTypes.spanning_relation",
     precedence_relation |-> "EdgeTypes.precedence_relation"]
EdgeType(t) == [k \in {"edge_type"} |-> t]

RECURSIVE precedence_loop(_, _, _, _)
precedence_loop(w, g, d, i) ==
    IF i > Len(d.tokens[g]) - 1 THEN Result("none", w)
    ELSE LET r == add_edge(w, g, d.tokens[g][i], d.tokens[g][i + 1],
                           PrecedenceLayers(d.ns[g]), NoKey, None, EdgeType(EdgeTypes.precedence_relation))
         IN IF r.err # "none" THEN r
            ELSE precedence_loop([heap |-> r.heap, node |-> r.node, adj |-> r.adj],
                                 g, d, i + 1)

(* Precedence relations between the tokens only, without the edge from the root. *)
add_precedence_relations_without_root(w, g, d) ==
    IF ~(Len(d.tokens[g]) > 1) THEN Result("AssertionError", w)
    ELSE precedence_loop(w, g, d, 1)

add_precedence_relations(w, g, d) ==
    IF ~(Len(d.tokens[g]) > 1) THEN Result("AssertionError", w)
    ELSE LET r == add_edge(w, g, d.root[g], d.tokens[g][1],
                           PrecedenceLayers(d.ns[g]), NoKey, None, EdgeType(EdgeTypes.precedence_relation))
         IN IF r.err # "none" THEN r
            ELSE precedence_loop([heap |-> r.heap, node |-> r.node, adj |-> r.adj], g, d, 1)

----------------------------------------------------------------------------
(* The query functions of the module. *)

(* get_annotation_layers(docgraph): the layers of the nodes. *)
get_annotation_layers(w, g) ==
    UNION {w.heap[w.node[g][n]]["layers"] : n \in DOMAIN w.node[g]}

(* util.natural_sort_key: node ids compare by their place in the natural
   (numeric-aware) order of the ids of this model. *)
NaturalOrder ==
    <<"m1", "m2", "m3", "n1", "n2", "root", "root2",
      "t1", "t2", "t3", "t4", "t5", "u1", "u2", "u3", "u4", "u5">>
(* The first call is on any id, a nested call on one of ids.  A nesting with
   more nested calls than there are ids repeats an id: the recursion is in a
   cycle and ends only at Python's recursion limit. *)
MaxDepth(ids) == Cardinality(ids) + 1
natural_sort_key(id) == CHOOSE i \in 1 .. Len(NaturalOrder) : NaturalOrder[i] = id

RECURSIVE sorted(_)
sorted(s) ==
    IF s = <<>> THEN <<>>
    ELSE LET m == CHOOSE i \in 1 .. Len(s) :
                    \A j \in 1 .. Len(s) : natural_sort_key(s[i]) <= natural_sort_key(s[j])
         IN <<s[m]>> \o sorted([i \in 1 .. (Len(s) - 1) |-> IF i < m THEN s[i] ELSE s[i + 1]])

(* get_span(docgraph, node_id).  order is the order in which the graph yields
   its edges: out_edges_iter(node_id) yields the edges out of node_id in that
   order.  depth counts the nested calls; a call nested deeper than the
   number of nodes of the graph is in a cycle and ends in Python's "maximum
   recursion depth exceeded" RuntimeError. *)
IgnoredAsPointingStr(edge_attribs) == edge_attribs["edge_type"] = "points_to"
(* Line 548: the edges get_span ignores as pointing relations. *)
IgnoredAsPointing(edge_attribs) == edge_attribs["edge_type"] = EdgeTypes.pointing_relation

RECURSIVE get_span(_, _, _, _, _, _)
RECURSIVE span_loop(_, _, _, _, _, _, _)
span_loop(w, g, d, order, out, i, depth) ==
    IF i > Len(out) THEN [err |-> "none", span |-> <<>>]
    ELSE
      LET to_id == out[i][2]
          edge_attribs == w.adj[g][out[i]]
      IN IF "edge_type" \notin DOMAIN edge_attribs
         THEN [err |-> "KeyError", span |-> <<>>]
         ELSE
           LET here ==
                 IF ~IgnoredAsPointing(edge_attribs)
                 THEN IF TokenKey(d.ns[g], "token") \in DOMAIN w.heap[w.node[g][to_id]]
                      THEN [err |-> "none", span |-> <<to_id>>]
                      ELSE get_span(w, g, d, to_id, order, depth + 1)
                 ELSE [err |-> "none", span |-> <<>>]
           IN IF here.err # "none" THEN here
              ELSE LET rest == span_loop(w, g, d, order, out, i + 1, depth)
                   IN IF rest.err # "none" THEN rest
                      ELSE [err |-> "none", span |-> here.span \o rest.span]

get_span(w, g, d, node_id, order, depth) ==
    IF depth > MaxDepth(DOMAIN w.node[g]) THEN [err |-> "RuntimeError", span |-> <<>>]
    ELSE LET out == SelectSeq(order, LAMBDA e : e[1] = node_id)
             r == span_loop(w, g, d, order, out, 1, depth)
         IN IF r.err # "none" THEN r
            ELSE [err |-> "none", span |-> sorted(r.span)]

(* next(generator) on the generator object a call
   select_edges_by_edgetype(docgraph, edge_type) returned.  The call itself
   runs nothing.  The first next() reads the list docgraph.edges(data=True)
   (line 592), order being the order of that list; every next() goes on
   through the list, reads the attribute dict of each edge as it is by then,
   and stops at the next edge of the type, which it yields, at an edge
   without edge_type (KeyError) or at the end of the list (StopIteration). *)
generator_next(w, g, generator, order) ==
    LET todo == IF generator.state = "created" THEN order ELSE generator.rest
        untyped(i) == "edge_type" \notin DOMAIN w.adj[g][todo[i]]
        stops == {i \in 1 .. Len(todo) :
                    untyped(i) \/ w.adj[g][todo[i]]["edge_type"] = generator.edge_type}
    IN IF stops = {}
       THEN [generator EXCEPT !.state = "done", !.rest = <<>>, !.err = "StopIteration"]
       ELSE LET i == CHOOSE x \in stops : \A y \in stops : x <= y
            IN IF untyped(i)
               THEN [generator EXCEPT !.state = "done", !.rest = <<>>, !.err = "KeyError"]
               ELSE [generator EXCEPT !.state = "running",
                                      !.rest = SubSeq(todo, i + 1, Len(todo)),
                                      !.edges = Append(@, <<todo[i][1], todo[i][2]>>)]

(* select_edges_by_edgetype(docgraph, edge_type) read to its end by one
   caller with no call in between, as get_pointing_chains reads it (line
   638): it walks the edges in the order the graph yields them and yields the
   edges of that type, one by one, until it meets an edge without edge_type,
   where it raises KeyError.  edges holds what it has yielded by then. *)
select_edges_by_edgetype(w, g, edge_type, order) ==
    LET untyped == {i \in 1 .. Len(order) : "edge_type" \notin DOMAIN w.adj[g][order[i]]}
        read == IF untyped = {} THEN Len(order)
                ELSE (CHOOSE i \in untyped : \A j \in untyped : i <= j) - 1
    IN [err |-> IF untyped = {} THEN "none" ELSE "KeyError",
        edges |-> SelectSeq(SubSeq(order, 1, read),
                            LAMBDA e : w.adj[g][e]["edge_type"] = edge_type)]

RECURSIVE walk_chain(_, _, _)
RECURSIVE walk_targets(_, _, _, _, _)
walk_targets(rel_dict, from_id, targets, i, depth) ==
    IF i > Len(targets) THEN [err |-> "none", paths |-> <<>>]
    ELSE
      LET to_id == targets[i]
          here == IF to_id \in DOMAIN rel_dict
                  THEN LET tails == walk_chain(rel_dict, to_id, depth + 1)
                       IN [err |-> tails.err,
                           paths |-> [k \in 1 .. Len(tails.paths) |->
                                        <<from_id>> \o tails.paths[k]]]
                  ELSE [err |-> "none", paths |-> << <<from_id, to_id>> >>]
      IN IF here.err # "none" THEN [err |-> here.err, paths |-> <<>>]
         ELSE LET rest == walk_targets(rel_dict, from_id, targets, i + 1, depth)
              IN IF rest.err # "none" THEN rest
                 ELSE [err |-> "none", paths |-> here.paths \o rest.paths]

(* __walk_chain(rel_dict, from_id).  rel_dict[from_id] is the set of targets
   of from_id as the sequence in which iterating the set yields them. *)
walk_chain(rel_dict, from_id, depth) ==
    IF depth > MaxDepth(DOMAIN rel_dict) THEN [err |-> "RuntimeError", paths |-> <<>>]
    ELSE IF from_id \notin DOMAIN rel_dict   \* a defaultdict(set): an empty set
    THEN [err |-> "none", paths |-> <<>>]
    ELSE walk_targets(rel_dict, from_id, rel_dict[from_id], 1, depth)

RECURSIVE Concat(_)
Concat(ss) == IF ss = <<>> THEN <<>> ELSE Head(ss) \o Concat(Tail(ss))

(* The (from_id, to_id) pairs of the edges whose edge_type is the str
   'points_to', and the orders in which rel_dict can yield its keys and each
   of its sets can yield its targets. *)
PointingPairs(w, g) ==
    {<<e[1], e[2]>> : e \in {x \in DOMAIN w.adj[g] :
                               /\ "edge_type" \in DOMAIN w.adj[g][x]
                               /\ w.adj[g][x]["edge_type"] = "points_to"}}
RelDictOrders(w, g) ==
    LET pairs == PointingPairs(w, g)
        sources == {p[1] : p \in pairs}
        targets(from_id) == {p[2] : p \in {q \in pairs : q[1] = from_id}}
    IN {[keys |-> k, targets |-> t] :
          k \in Perms(sources),
          t \in {f \in [sources -> UNION {Perms(targets(x)) : x \in sources}] :
                   \A x \in sources : f[x] \in Perms(targets(x))}}

(* get_pointing_chains(docgraph).  order is the order in which the graph
   yields its edges; iteration.keys and iteration.targets are the orders in
   which rel_dict yields its keys and each of its sets its elements. *)
get_pointing_chains(w, g, order, iteration) ==
    LET pointing_relations == select_edges_by_edgetype(w, g, "points_to", order)
    IN IF pointing_relations.err # "none"
       THEN [err |-> pointing_relations.err, chains |-> <<>>]
       ELSE
         LET pairs == {<<pointing_relations.edges[i][1], pointing_relations.edges[i][2]>> :
                         i \in 1 .. Len(pointing_relations.edges)}
             rel_dict == [from_id \in {p[1] : p \in pairs} |->
                            SelectSeq(iteration.targets[from_id],
                                      LAMBDA to_id : <<from_id, to_id>> \in pairs)]
             keys == SelectSeq(iteration.keys, LAMBDA from_id : from_id \in DOMAIN rel_dict)
             walks == [i \in 1 .. Len(keys) |-> walk_chain(rel_dict, keys[i], 1)]
             all_chains == [i \in 1 .. Len(keys) |-> walks[i].paths]
             unique(i) ==
               LET from_id == all_chains[i][1][1]
               IN ~ \E j \in (1 .. Len(keys)) \ {i} :
                      \E k \in 1 .. Len(all_chains[j]) :
                         \E x \in 1 .. Len(all_chains[j][k]) : all_chains[j][k][x] = from_id
         IN IF \E i \in 1 .. Len(keys) : walks[i].err # "none"
            THEN [err |-> "RuntimeError", chains |-> <<>>]
            ELSE [err |-> "none",
                  chains |-> Concat([i \in 1 .. Len(keys) |->
                                       IF unique(i) THEN all_chains[i] ELSE <<>>])]

----------------------------------------------------------------------------
(* The documents.  "self" is the graph the API is called on; "other" is the
   graph handed to merge_graphs. *)

Graphs == {"self", "other"}
SelfTokenIds == <<"t1", "t2", "t3", "t4", "t5">>
OtherTokenIds == <<"u1", "u2", "u3", "u4", "u5">>
Range(f) == {f[i] : i \in DOMAIN f}
AllIds == NodeIds \cup {"root", "root2", "m1", "m2", "m3"} \cup Range(SelfTokenIds) \cup Range(OtherTokenIds)
Refs == CallerDicts \cup {OwnDict(g, n) : g \in Graphs, n \in AllIds}
Doc == [ns |-> ns, root |-> root, tokens |-> tokens]
NoLast == [op |-> "none", err |-> "none"]
NoGen == [state |-> "none", edge_type |-> "none", rest |-> <<>>, edges |-> <<>>, err |-> "none"]
NoPassed == [n |-> EmptyDict, e |-> EmptyDict]

(* DiscourseDocumentGraph.__init__: an empty graph; the caller holds an empty dict. *)
EmptyWorld ==
    [heap |-> [r \in Refs |-> EmptyDict],
     node |-> [g \in Graphs |-> EmptyDict],
     adj  |-> [g \in Graphs |-> EmptyDict]]

(* The graph after add_node("n1", {"a"}); add_node("n2", {"a"}). *)
TwoNodes ==
    add_node(add_node(EmptyWorld, "self", "n1", {"a"}, None, EmptyDict),
             "self", "n2", {"a"}, None, EmptyDict)

InitFrom(w) ==
    /\ heap = w.heap
    /\ node = w.node
    /\ adj = w.adj
    /\ ns = [g \in Graphs |-> IF g = "self" THEN "ns1" ELSE "ns2"]
    /\ root = [g \in Graphs |-> "n1"]
    /\ tokens = [g \in Graphs |-> <<>>]
    /\ passed = [n |-> [x \in DOMAIN w.node["self"] |-> w.heap[w.node["self"][x]]["layers"]],
                 e |-> EmptyDict]
    /\ last = NoLast
    /\ gen = NoGen
    /\ calls = 0

Init == InitFrom(EmptyWorld) \/ InitFrom(TwoNodes)

LayerArgs == {{}, {"a"}, {"b"}}
KwArgs == {EmptyDict} \cup {[k \in {"weight"} |-> x] : x \in Weights}
DictArgs == {None} \cup CallerDicts
KeyArgs == {NoKey} \cup (0 .. MaxKey)
EdgeLayerArgs == {{"a"}, {"b"}}
EdgeKwArgs == {EmptyDict}

Apply(r) == heap' = r.heap /\ node' = r.node /\ adj' = r.adj
Called == calls' = calls + 1
AddPassed(p, x, layers) == Update(p, [y \in {x} |-> Get(p, x, {}) \cup layers])

(* The key add_edge stores the edge under. *)
UsedKey(w, g, u, v, key) ==
    IF key # NoKey THEN key
    ELSE IF KeyDict(w, g, u, v) = {} THEN 0 ELSE NewKey(KeyDict(w, g, u, v))

AddNode(n, layers, attr_dict, kw) ==
    LET r == add_node(World, "self", n, layers, attr_dict, kw)
    IN /\ Called
       /\ Apply(r)
       /\ last' = [op |-> "add_node", err |-> r.err, n |-> n, layers |-> layers,
                   attr_dict |-> attr_dict, kw |-> kw]
       /\ passed' = IF r.err = "none"
                     THEN [passed EXCEPT !.n = AddPassed(@, n, layers)] ELSE passed
       /\ UNCHANGED <<ns, root, tokens, gen>>

AddEdge(u, v, layers, key, attr_dict, kw) ==
    LET r == add_edge(World, "self", u, v, layers, key, attr_dict, kw)
        k == UsedKey(World, "self", u, v, key)
    IN /\ Called
       /\ Apply(r)
       /\ last' = [op |-> "add_edge", err |-> r.err, u |-> u, v |-> v, layers |-> layers,
                   key |-> key, attr_dict |-> attr_dict, kw |-> kw]
       /\ passed' = IF r.err = "none"
                     THEN [passed EXCEPT !.e = AddPassed(@, <<u, v, k>>, layers)] ELSE passed
       /\ UNCHANGED <<ns, root, tokens, gen>>

AddNodesFrom(nodes, kw) ==
    LET r == add_nodes_from(World, "self", nodes, kw)
    IN /\ Called
       /\ Apply(r)
       /\ last' = [op |-> "add_nodes_from", err |-> r.err, nodes |-> nodes, kw |-> kw]
       /\ UNCHANGED <<ns, root, tokens, passed, gen>>

AddEdgesFrom(ebunch, attr_dict, kw) ==
    LET r == add_edges_from(World, "self", ebunch, attr_dict, kw)
    IN /\ Called
       /\ Apply(r)
       /\ last' = [op |-> "add_edges_from", err |-> r.err, ebunch |-> ebunch,
                   attr_dict |-> attr_dict, kw |-> kw]
       /\ UNCHANGED <<ns, root, tokens, passed, gen>>

(* Calls of add_node and add_edge on a graph that is empty or holds two nodes. *)
Next ==
    \/ \E n \in NodeIds, layers \in LayerArgs, d \in DictArgs, kw \in KwArgs :
          calls < MaxCalls /\ AddNode(n, layers, d, kw)
    \/ \E u, v \in NodeIds, layers \in EdgeLayerArgs, key \in KeyArgs, d \in DictArgs,
          kw \in EdgeKwArgs : calls < MaxCalls /\ AddEdge(u, v, layers, key, d, kw)

Spec == Init /\ [][Next]_vars

(* Calls of add_nodes_from and add_edges_from.  The sequences hold valid
   entries and invalid ones: no 'layers', a layers set with a non-str element,
   a tuple that is neither a 3- nor a 4-tuple, an endpoint that is no node. *)
SeqsUpTo(S, n) == UNION {[1 .. k -> S] : k \in 0 .. n}
W1 == [k \in {"weight"} |-> "w1"]
W2 == [k \in {"weight"} |-> "w2"]
NodeDicts == {LayersDict({"a"}), Update(LayersDict({"b"}), W2), EmptyDict}
NodeEntries == {[id |-> n, ndict |-> d] : n \in NodeIds, d \in NodeDicts}
EdgeEntries ==
    {[ne |-> 3, u |-> "n1", v |-> v, key |-> NoKey, dd |-> Update(LayersDict({"b"}), W2)] :
       v \in NodeIds}
    \cup {[ne |-> 4, u |-> "n1", v |-> v, key |-> 0, dd |-> LayersDict({"a"})] : v \in NodeIds}
    \cup {[ne |-> 3, u |-> "n1", v |-> "n1", key |-> NoKey, dd |-> d] :
             d \in {EmptyDict, LayersDict({NonStr})}}
    \cup {[ne |-> 2, u |-> "n1", v |-> "n1", key |-> NoKey, dd |-> EmptyDict]}
SharedKw == {EmptyDict, Update(LayersDict({"a"}), W1)}

NextBulk ==
    \/ \E nodes \in SeqsUpTo(NodeEntries, MaxBunch), kw \in {EmptyDict, W1} :
          calls < MaxBulkCalls /\ AddNodesFrom(nodes, kw)
    \/ \E ebunch \in SeqsUpTo(EdgeEntries, MaxBunch), d \in DictArgs, kw \in SharedKw :
          calls < MaxBulkCalls /\ AddEdgesFrom(ebunch, d, kw)

SpecBulk == Init /\ [][NextBulk]_vars

----------------------------------------------------------------------------
(* Documents.  A reader builds a document graph through the API: a root
   node, one node per token carrying the token string under <ns>:token
   (<ns>:word in a tiger graph), and sets ns, root and tokens.  The graph
   "other" also holds a markable m1 with a dominance edge and a pointing edge
   to its first token. *)

Texts == {"A", "B"}
TokenSeqs == UNION {[1 .. k -> Texts] : k \in 1 .. MaxTokens}
Orders(S) == {s \in [1 .. Cardinality(S) -> S] : \A i, j \in DOMAIN s : s[i] = s[j] => i = j}

RECURSIVE add_tokens(_, _, _, _, _, _, _)
add_tokens(w, g, nsg, token_attrib, ids, texts, i) ==
    IF i > Len(texts) THEN w
    ELSE add_tokens(
           AsWorld(add_node(w, g, ids[i], {nsg, TokenKey(nsg, "token")}, None,
                            [k \in {TokenKey(nsg, token_attrib)} |-> texts[i]])),
           g, nsg, token_attrib, ids, texts, i + 1)

DocWorldWith(selfns, selftexts, othertexts, otherids, otherroot) ==
    LET w1 == AsWorld(add_node(EmptyWorld, "self", "root", {selfns}, None, EmptyDict))
        w2 == add_tokens(w1, "self", selfns, IF selfns = "tiger" THEN "word" ELSE "token",
                         SelfTokenIds, selftexts, 1)
        w3 == AsWorld(add_node(w2, "other", otherroot, {"ns2"}, None, EmptyDict))
        w4 == add_tokens(w3, "other", "ns2", "token", otherids, othertexts, 1)
        w5 == AsWorld(add_node(w4, "other", "m1", {"ns2"}, None, EmptyDict))
        w6 == AsWorld(add_edge(w5, "other", "m1", otherids[1], {"ns2"}, NoKey, None,
                               EdgeType(EdgeTypes.dominance_relation)))
    IN AsWorld(add_edge(w6, "other", "m1", otherids[1], {"ns2", "ns2:coref"}, NoKey, None,
                        EdgeType(EdgeTypes.pointing_relation)))

DocWorld(selfns, selftexts, othertexts, otherids) ==
    DocWorldWith(selfns, selftexts, othertexts, otherids, "root")

InitDocsWith(selfns, selftexts, othertexts, otherids, otherroot) ==
    LET w == DocWorldWith(selfns, selftexts, othertexts, otherids, otherroot)
    IN /\ heap = w.heap
       /\ node = w.node
       /\ adj = w.adj
       /\ ns = [g \in Graphs |-> IF g = "self" THEN selfns ELSE "ns2"]
       /\ root = [g \in Graphs |-> IF g = "self" THEN "root" ELSE otherroot]
       /\ tokens = [g \in Graphs |-> IF g = "self"
                                       THEN SubSeq(SelfTokenIds, 1, Len(selftexts))
                                       ELSE SubSeq(otherids, 1, Len(othertexts))]
       /\ passed = NoPassed
       /\ last = NoLast
       /\ gen = NoGen
       /\ calls = 0

InitDocs(selfns, selftexts, othertexts, otherids) ==
    InitDocsWith(selfns, selftexts, othertexts, otherids, "root")

MergeGraphs(order) ==
    LET r == merge_graphs(World, "self", "other", Doc, order)
    IN /\ Called
       /\ Apply(r)
       /\ last' = [op |-> "merge_graphs", err |-> r.err]
       /\ UNCHANGED <<ns, root, tokens, passed, gen>>

AddPrecedenceRelations ==
    LET r == add_precedence_relations(World, "self", Doc)
    IN /\ Called
       /\ Apply(r)
       /\ last' = [op |-> "add_precedence_relations", err |-> r.err]
       /\ UNCHANGED <<ns, root, tokens, passed, gen>>

(* Merging document graphs: every pair of token sequences up to MaxTokens
   tokens, with the same or with different token ids in the two graphs. *)
InitMerge ==
    \E selfns \in {"tiger", "ns1"}, selftexts \in TokenSeqs, othertexts \in TokenSeqs,
       otherids \in {SelfTokenIds, OtherTokenIds}, otherroot \in {"root", "root2"} :
      InitDocsWith(selfns, selftexts, othertexts, otherids, otherroot)

(* The orders in which document_graph can yield its nodes and its edges. *)
MergeOrders ==
    {[nodes |-> n, edges |-> e] :
       n \in Perms(DOMAIN node["other"]), e \in Orders(DOMAIN adj["other"])}

NextMerge ==
    \E order \in MergeOrders : calls < MaxMerges /\ MergeGraphs(order)

SpecMerge == InitMerge /\ [][NextMerge]_vars

(* Building precedence relations on documents of 1 .. MaxTokens tokens, with
   or without earlier edges between the root and the tokens. *)
InitPrec ==
    \E selfns \in {"tiger", "ns1"}, selftexts \in TokenSeqs :
      InitDocs(selfns, selftexts, <<"A">>, OtherTokenIds)

NextPrec ==
    \/ calls < MaxPrecCalls /\ AddPrecedenceRelations
    \/ \E e \in {<<"root", "t1">>, <<"t1", "t2">>} :
          calls < MaxPrecCalls /\ AddEdge(e[1], e[2], {"a"}, NoKey, None, EmptyDict)

SpecPrec == InitPrec /\ [][NextPrec]_vars

(* Graphs for the query functions: a document of two tokens and three
   markables with up to MaxQueryEdges edges out of dominance, spanning and
   precedence edges (a parallel edge, self-loops on a markable and on a token),
   pointing edges typed with EdgeTypes.pointing_relation or with the str
   'points_to', and an edge without edge_type. *)
Typed(u, v, t, l) == [u |-> u, v |-> v, attrs |-> EdgeType(t), layers |-> {"ns1", l}, c |-> 1]
QueryEdges ==
    {Typed("root", "m1", EdgeTypes.dominance_relation, "ns1:syntax"),
     Typed("m1", "m2", EdgeTypes.dominance_relation, "ns1:syntax"),
     Typed("m1", "t1", EdgeTypes.dominance_relation, "ns1:syntax"),
     [Typed("m1", "t1", EdgeTypes.dominance_relation, "ns1:syntax") EXCEPT !.c = 2],
     Typed("m2", "t1", EdgeTypes.spanning_relation, "ns1:span"),
     Typed("m2", "t2", EdgeTypes.dominance_relation, "ns1:syntax"),
     Typed("m1", "m1", EdgeTypes.dominance_relation, "ns1:syntax"),
     Typed("t1", "t1", EdgeTypes.dominance_relation, "ns1:syntax"),
     Typed("t1", "t2", EdgeTypes.precedence_relation, "ns1:precedence"),
     Typed("m1", "t2", EdgeTypes.pointing_relation, "ns1:coref"),
     Typed("m1", "m2", EdgeTypes.pointing_relation, "ns1:coref"),
     Typed("m2", "t1", EdgeTypes.pointing_relation, "ns1:coref"),
     Typed("m3", "t1", EdgeTypes.pointing_relation, "ns1:coref"),
     Typed("m1", "m2", "points_to", "ns1:coref"),
     Typed("m2", "t1", "points_to", "ns1:coref"),
     Typed("m3", "t1", "points_to", "ns1:coref"),
     Typed("m1", "t1", "points_to", "ns1:coref"),
     [u |-> "m2", v |-> "t2", attrs |-> EmptyDict, layers |-> {"ns1", "ns1:syntax"}, c |-> 1]}

RECURSIVE add_edges(_, _, _, _)
add_edges(w, g, es, i) ==
    IF i > Len(es) THEN w
    ELSE add_edges(AsWorld(add_edge(w, g, es[i].u, es[i].v, es[i].layers, NoKey, None,
                                    es[i].attrs)),
                   g, es, i + 1)

QueryWorld(es) ==
    LET w0 == DocWorld("ns1", <<"A", "B">>, <<"A">>, OtherTokenIds)
        w1 == AsWorld(add_node(w0, "self", "m1", {"ns1", "ns1:markable"}, None, EmptyDict))
        w2 == AsWorld(add_node(w1, "self", "m2", {"ns1", "ns1:markable"}, None, EmptyDict))
        w3 == AsWorld(add_node(w2, "self", "m3", {"ns1", "ns1:markable"}, None, EmptyDict))
    IN add_edges(w3, "self", SetToSeq(es), 1)

InitQuery ==
    \E es \in SUBSET QueryEdges :
      /\ Cardinality(es) <= MaxQueryEdges
      /\ LET w == QueryWorld(es)
         IN /\ heap = w.heap
            /\ node = w.node
            /\ adj = w.adj
            /\ ns = [g \in Graphs |-> IF g = "self" THEN "ns1" ELSE "ns2"]
            /\ root = [g \in Graphs |-> "root"]
            /\ tokens = [g \in Graphs |-> IF g = "self" THEN <<"t1", "t2">> ELSE <<"u1">>]
            /\ passed = NoPassed
            /\ last = NoLast
            /\ gen = NoGen
            /\ calls = 0

Queried == Called /\ UNCHANGED <<heap, node, adj, ns, root, tokens, passed>>

GetSpan(node_id) ==
    \E order \in EdgeOrders(World, "self") :
      LET r == get_span(World, "self", Doc, node_id, order, 1)
      IN /\ Queried
         /\ UNCHANGED gen
         /\ last' = [op |-> "get_span", err |-> r.err, node_id |-> node_id, span |-> r.span]

GetAnnotationLayers ==
    /\ Queried
    /\ UNCHANGED gen
    /\ last' = [op |-> "get_annotation_layers", err |-> "none",
                layers |-> get_annotation_layers(World, "self")]

GetPointingChains ==
    \E order \in EdgeOrders(World, "self"), iteration \in RelDictOrders(World, "self") :
      LET r == get_pointing_chains(World, "self", order, iteration)
      IN /\ Queried
         /\ UNCHANGED gen
         /\ last' = [op |-> "get_pointing_chains", err |-> r.err, chains |-> r.chains]

(* The call select_edges_by_edgetype(docgraph, edge_type): it returns a
   generator object and reads nothing of the graph. *)
SelectEdgesByEdgetype(edge_type) ==
    /\ Queried
    /\ gen' = [NoGen EXCEPT !.state = "created", !.edge_type = edge_type]
    /\ last' = [op |-> "select_edges_by_edgetype", err |-> "none", edge_type |-> edge_type]

(* next() on the generator: one more pair in gen.edges, or the end of the
   generator in gen.err (StopIteration, KeyError). *)
GeneratorNext ==
    /\ gen.state \in {"created", "running"}
    /\ \E order \in (IF gen.state = "created" THEN EdgeOrders(World, "self") ELSE {<<>>}) :
         LET r == generator_next(World, "self", gen, order)
         IN /\ gen' = r
            /\ last' = [op |-> "next", err |-> r.err]
    /\ UNCHANGED <<heap, node, adj, ns, root, tokens, passed, calls>>

QueryTypes == {EdgeTypes.pointing_relation, EdgeTypes.dominance_relation, "points_to"}

NextQuery ==
    \/ \E node_id \in DOMAIN node["self"] : calls < MaxQueries /\ GetSpan(node_id)
    \/ calls < MaxQueries /\ GetAnnotationLayers
    \/ calls < MaxQueries /\ GetPointingChains
    \/ \E edge_type \in QueryTypes : calls < MaxQueries /\ SelectEdgesByEdgetype(edge_type)
    \/ GeneratorNext

SpecQuery == InitQuery /\ [][NextQuery]_vars

(* Every operation of the mutation API, valid and failing calls, on a
   document of two tokens. *)
InitAll ==
    \E othertexts \in {<<"A", "B">>, <<"A", "A">>} :
      InitDocs("ns1", <<"A", "B">>, othertexts, OtherTokenIds)

AllNodeEntries == {[id |-> "n2", ndict |-> LayersDict({"a"})], [id |-> "n1", ndict |-> EmptyDict]}
AllEdgeEntries ==
    {[ne |-> 3, u |-> "t1", v |-> "n2", key |-> NoKey, dd |-> LayersDict({"a"})],
     [ne |-> 3, u |-> "root", v |-> "t1", key |-> NoKey, dd |-> EmptyDict]}

NextAll ==
    \/ calls < MaxCalls /\ AddNode("n2", {"a"}, None, EmptyDict)
    \/ \E u \in {"root", "n2"}, v \in {"t1", "n2"} :
          calls < MaxCalls /\ AddEdge(u, v, {"a"}, NoKey, None, EmptyDict)
    \/ \E nodes \in SeqsUpTo(AllNodeEntries, MaxBunch) :
          calls < MaxCalls /\ AddNodesFrom(nodes, EmptyDict)
    \/ \E ebunch \in SeqsUpTo(AllEdgeEntries, MaxBunch) :
          calls < MaxCalls /\ AddEdgesFrom(ebunch, None, EmptyDict)
    \/ calls < MaxCalls /\ AddPrecedenceRelations
    \/ \E order \in MergeOrders : calls < MaxCalls /\ MergeGraphs(order)

SpecAll == InitAll /\ [][NextAll]_vars

----------------------------------------------------------------------------
(* Reading the graph "self" *)

G == "self"
Nodes == DOMAIN node[G]
Edges == DOMAIN adj[G]
NodeDict(n) == heap[node[G][n]]
NodeDictNext(n) == heap'[node'[G][n]]
EdgeDict(e) == adj[G][e]

(* What a call passes as attributes besides layers: attr_dict updated with **attr. *)
Given(attr_dict, kw) ==
    WithoutLayers(Update(IF attr_dict = None THEN EmptyDict ELSE heap[attr_dict], kw))

(* The lowest natural number that is not in keys. *)
LowestUnused(keys) ==
    CHOOSE k \in 0 .. Cardinality(keys) : k \notin keys /\ \A j \in 0 .. (k - 1) : j \in keys

----------------------------------------------------------------------------
(* C1 -- Layer monotonicity: after any sequence of add_node / add_edge calls,
   the layers stored for a node id, and for an edge (u, v, key), are the union
   of every layers argument passed for that node id / edge. *)
C1_LayersAreUnionOfPassed ==
    /\ \A n \in Nodes : NodeDict(n)["layers"] = passed.n[n]
    /\ \A e \in Edges : EdgeDict(e)["layers"] = passed.e[e]

(* C2 -- Non-empty layers: no call inserts an empty layers set, so every node
   and every edge of the graph carries at least one layer. *)
C2_LayersNonEmpty ==
    /\ \A n \in Nodes : NodeDict(n)["layers"] # {}
    /\ \A e \in Edges : EdgeDict(e)["layers"] # {}

(* C4 -- Re-insertion: add_node on an existing node, and add_edge with the key
   of an existing edge, create no node and no edge; the given non-layers keys
   take the new values, the other keys keep theirs, and layers becomes the old
   layers united with the new ones. *)
C4_ReinsertOverwritesButUnitesLayers ==
    [][ /\ (last'.op = "add_node" /\ last'.err = "none" /\ last'.n \in Nodes) =>
            /\ DOMAIN node'[G] = Nodes /\ DOMAIN adj'[G] = Edges
            /\ NodeDictNext(last'.n) =
                  Update(Update(NodeDict(last'.n), Given(last'.attr_dict, last'.kw)),
                         LayersDict(NodeDict(last'.n)["layers"] \cup last'.layers))
        /\ (last'.op = "add_edge" /\ last'.err = "none"
               /\ <<last'.u, last'.v, last'.key>> \in Edges) =>
            LET e == <<last'.u, last'.v, last'.key>>
            IN /\ DOMAIN node'[G] = Nodes /\ DOMAIN adj'[G] = Edges
               /\ adj'[G][e] =
                     Update(Update(EdgeDict(e), Given(last'.attr_dict, last'.kw)),
                            LayersDict(EdgeDict(e)["layers"] \cup last'.layers))
      ]_vars

(* C5 -- Key assignment: add_edge(u, v, ...) without a key stores the new edge
   under the lowest non-negative integer that is not yet a key of an edge from
   u to v. *)
C5_NoKeyGetsLowestUnusedKey ==
    [][ (last'.op = "add_edge" /\ last'.err = "none" /\ last'.key = NoKey) =>
          DOMAIN adj'[G] \ Edges =
            {<<last'.u, last'.v, LowestUnused(KeyDict(World, G, last'.u, last'.v))>>}
      ]_vars

(* C9 -- Missing endpoint: add_edge(u, v, ...) fails when u or v is not a node,
   and then the node set, the edge set and every stored attribute are what
   they were. *)
C9_MissingEndpointFailsAndChangesNothing ==
    [][ (last'.op = "add_edge" /\ (last'.u \notin Nodes \/ last'.v \notin Nodes)) =>
          /\ last'.err # "none"
          /\ node' = node
          /\ adj' = adj
          /\ \A n \in Nodes : NodeDictNext(n) = NodeDict(n)
      ]_vars

----------------------------------------------------------------------------
(* The bulk calls, entry by entry: the graph after the first i entries of the
   last call's sequence, and the value a non-layers key must have by the
   precedence  entry > shared > stored. *)

AttrKeys == {"weight"}
NodesAfter(i) ==
    AsWorld(add_nodes_from(World, G, SubSeq(last'.nodes, 1, i), last'.kw))
EdgesAfter(i) ==
    AsWorld(add_edges_from(World, G, SubSeq(last'.ebunch, 1, i), last'.attr_dict, last'.kw))
SharedAttrs ==
    Update(IF last'.attr_dict = None THEN EmptyDict ELSE heap[last'.attr_dict], last'.kw)
ByPrecedence(new, k, own, shared, stored) ==
    IF k \in DOMAIN own THEN k \in DOMAIN new /\ new[k] = own[k]
    ELSE IF k \in DOMAIN shared THEN k \in DOMAIN new /\ new[k] = shared[k]
    ELSE IF k \in DOMAIN stored THEN k \in DOMAIN new /\ new[k] = stored[k]
    ELSE k \notin DOMAIN new

(* The edge that entry e of add_edges_from makes or merges into, given the
   edges before and after the entry. *)
EntryEdge(e, pre, post) ==
    IF e.ne = 4 THEN <<e.u, e.v, e.key>>
    ELSE CHOOSE x \in DOMAIN post : x \notin DOMAIN pre

(* C6 -- add_nodes_from precedence: for every entry, new node or existing
   node, a non-layers key has the entry's own value if the entry gives one,
   else the overlay's value if the overlay gives one, else the stored value. *)
C6_NodesFromOwnOverOverlayOverStored ==
    [][ (last'.op = "add_nodes_from" /\ last'.err = "none") =>
          /\ AsWorld(add_nodes_from(World, G, last'.nodes, last'.kw)) = World'
          /\ \A i \in 1 .. Len(last'.nodes) :
                LET n == last'.nodes[i]
                    pre == NodesAfter(i - 1)
                    post == NodesAfter(i)
                    stored == IF HasNode(pre, G, n.id) THEN pre.heap[pre.node[G][n.id]]
                              ELSE EmptyDict
                    new == post.heap[post.node[G][n.id]]
                IN \A k \in AttrKeys : ByPrecedence(new, k, n.ndict, last'.kw, stored)
      ]_vars

(* C7 -- add_edges_from merge rule: for every entry the edge's layers are the
   entry's layers united with the shared layers and, when the entry's key
   names an existing edge, with that edge's layers; a non-layers key has the
   entry's value, else the shared value, else the stored value. *)
C7_EdgesFromMergeRule ==
    [][ (last'.op = "add_edges_from" /\ last'.err = "none") =>
          /\ EdgesAfter(Len(last'.ebunch)) = World'
          /\ \A i \in 1 .. Len(last'.ebunch) :
                LET e == last'.ebunch[i]
                    pre == EdgesAfter(i - 1).adj[G]
                    post == EdgesAfter(i).adj[G]
                    x == EntryEdge(e, pre, post)
                    stored == IF x \in DOMAIN pre THEN pre[x] ELSE EmptyDict
                IN /\ x \in DOMAIN post /\ x[1] = e.u /\ x[2] = e.v
                   /\ DOMAIN post = DOMAIN pre \cup {x}
                   /\ \A y \in DOMAIN pre \ {x} : post[y] = pre[y]
                   /\ post[x]["layers"] =
                        e.dd["layers"] \cup Get(SharedAttrs, "layers", {})
                          \cup Get(stored, "layers", {})
                   /\ \A k \in AttrKeys :
                        ByPrecedence(post[x], k, e.dd, SharedAttrs, stored)
      ]_vars

(* A state after add_edges_from has merged an entry into an existing edge
   whose stored weight differs from the shared one, beside a new edge. *)
C7_Witness ==
    /\ last.op = "add_edges_from" /\ last.err = "none"
    /\ Len(last.ebunch) = 2
    /\ last.ebunch[1].ne = 3 /\ "weight" \in DOMAIN last.ebunch[1].dd
    /\ last.ebunch[2].ne = 4 /\ "weight" \notin DOMAIN last.ebunch[2].dd
    /\ last.ebunch[2].u = last.ebunch[1].u /\ last.ebunch[2].v = last.ebunch[1].v
    /\ last.kw = Update(LayersDict({"a"}), W1)
    /\ \E x \in Edges : EdgeDict(x) = Update(LayersDict({"a", "b"}), W1)

(* C8 -- Validation before mutation: when add_nodes_from or add_edges_from
   fails on an invalid entry, the nodes, the edges and the attributes of the
   graph are what they were before the call. *)
C8_FailedBulkCallChangesNothing ==
    [][ (last'.op \in {"add_nodes_from", "add_edges_from"} /\ last'.err # "none") =>
          /\ node' = node
          /\ adj' = adj
          /\ \A n \in Nodes : NodeDictNext(n) = NodeDict(n)
      ]_vars

----------------------------------------------------------------------------
(* C3: whatever sequence of add_node, add_nodes_from, add_edge,
   add_edges_from, add_precedence_relations and merge_graphs calls is made,
   valid or failing, both endpoints of every edge of the graph are nodes of
   the graph. *)
C3_NoDanglingEdges ==
    \A e \in Edges : e[1] \in Nodes /\ e[2] \in Nodes

(* The graph holds edges merged from another document, and the last call was
   an add_edge to a node that is not in the graph, which failed. *)
C3_Witness ==
    /\ last.op = "add_edge"
    /\ last.err = "AssertionError"
    /\ last.v \notin Nodes
    /\ \E e \in Edges : e[1] = "m1"

----------------------------------------------------------------------------
OtherTokensReadable ==
    \A i \in 1 .. Len(tokens["other"]) : HasToken(World, "other", Doc, i, "token")

SelfTokenAttrib == IF ns[G] = "tiger" THEN "word" ELSE "token"

SameTokenAt(i) ==
    /\ HasToken(World, G, Doc, i, SelfTokenAttrib)
    /\ TokenStr(World, G, Doc, i, SelfTokenAttrib) = TokenStr(World, "other", Doc, i, "token")

MismatchAt(i) ==
    /\ i \in 1 .. Len(tokens[G])
    /\ i \in 1 .. Len(tokens["other"])
    /\ OtherTokensReadable
    /\ \A j \in 1 .. (i - 1) : SameTokenAt(j)
    /\ HasToken(World, G, Doc, i, SelfTokenAttrib)
    /\ TokenStr(World, G, Doc, i, SelfTokenAttrib) # TokenStr(World, "other", Doc, i, "token")

SelfUnchanged ==
    /\ node'[G] = node[G]
    /\ adj'[G] = adj[G]
    /\ \A n \in Nodes : heap'[node[G][n]] = heap[node[G][n]]
    /\ ns'[G] = ns[G]
    /\ root'[G] = root[G]
    /\ tokens'[G] = tokens[G]

(* C10: when merge_graphs is called and the two token sequences, compared
   position by position, differ in their token string at some position, the
   call fails with the tokenization mismatch error (ValueError) and the nodes,
   edges and attributes of self are what they were before the call. *)
C10_MismatchFailsAndLeavesSelf ==
    [][(last'.op = "merge_graphs" /\ calls' = calls + 1 /\ \E i \in 1 .. MaxTokens : MismatchAt(i))
         => (last'.err = "ValueError" /\ SelfUnchanged)]_vars

(* A merge has failed on a mismatch at the second token, the first tokens
   being the same. *)
C10_Witness ==
    /\ last.op = "merge_graphs"
    /\ last.err = "ValueError"
    /\ SameTokenAt(1)
    /\ MismatchAt(2)

----------------------------------------------------------------------------
EqualAtCommonPositions ==
    /\ OtherTokensReadable
    /\ \A i \in 1 .. Len(tokens[G]) :
          i <= Len(tokens["other"]) => SameTokenAt(i)
    /\ \A i \in 1 .. Len(tokens[G]) :
          i <= Len(tokens["other"]) + 1 => HasToken(World, G, Doc, i, SelfTokenAttrib)

(* C11: when merge_graphs is called and the two graphs have a different
   number of tokens, other having fewer or more tokens than self, with the same
   token string at every common position, the call fails with the
   tokenization mismatch error (ValueError) and self is what it was before
   the call. *)
C11_CountMismatchFailsAndLeavesSelf ==
    [][(/\ last'.op = "merge_graphs" /\ calls' = calls + 1
        /\ Len(tokens[G]) # Len(tokens["other"])
        /\ EqualAtCommonPositions)
         => (last'.err = "ValueError" /\ SelfUnchanged)]_vars

----------------------------------------------------------------------------
OtherNodes == DOMAIN node["other"]
OtherTokens == {tokens["other"][i] : i \in 1 .. Len(tokens["other"])}
SelfTokens == {tokens[G][i] : i \in 1 .. Len(tokens[G])}

SameTokenization ==
    /\ Len(tokens[G]) = Len(tokens["other"])
    /\ OtherTokensReadable
    /\ \A i \in 1 .. Len(tokens[G]) : SameTokenAt(i)

DisjointNonTokens ==
    /\ (OtherNodes \ OtherTokens) \cap Nodes = {}
    /\ \A i \in 1 .. Len(tokens["other"]) :
          tokens["other"][i] \in Nodes => tokens["other"][i] = tokens[G][i]

(* C12: when merge_graphs is called on two graphs with the same token
   strings in the same order and disjoint non-token node ids, the call
   succeeds, the number of nodes of self afterwards is its number before plus
   the number of nodes of other minus the number of tokens, and the self token
   at each position carries the token string and the layers of other's token
   at that position, other's own token id not being added to self. *)
C12_MergeIdentifiesTokens ==
    [][(/\ last'.op = "merge_graphs" /\ calls' = calls + 1
        /\ SameTokenization /\ DisjointNonTokens)
         => (/\ last'.err = "none"
             /\ Cardinality(DOMAIN node'[G]) =
                  Cardinality(Nodes) + Cardinality(OtherNodes) - Len(tokens[G])
             /\ \A i \in 1 .. Len(tokens[G]) :
                  LET local == tokens[G][i]
                      remote == tokens["other"][i]
                      before == heap[node["other"][remote]]
                      after == heap'[node'[G][local]]
                  IN /\ local \in DOMAIN node'[G]
                     /\ TokenKey(ns["other"], "token") \in DOMAIN after
                     /\ after[TokenKey(ns["other"], "token")] =
                          before[TokenKey(ns["other"], "token")]
                     /\ before["layers"] \subseteq after["layers"]
                     /\ (remote # local => remote \notin DOMAIN node'[G]))]_vars

(* A merge of three-token graphs with different token ids has succeeded: self
   holds other's markable and root, and its second token carries other's
   token string. *)
C12_Witness ==
    /\ last.op = "merge_graphs" /\ last.err = "none" /\ calls = 1
    /\ Len(tokens[G]) = 3
    /\ {"m1", "root2"} \subseteq Nodes
    /\ "u2" \notin Nodes
    /\ "ns2:token" \in DOMAIN NodeDict("t2")

----------------------------------------------------------------------------
(* C13: every merge_graphs call, successful or failed, leaves self.root and
   the token id sequence self.tokens as they were, and afterwards the root and
   every id of self.tokens is a node of self. *)
C13_MergeKeepsAnchors ==
    [][(last'.op = "merge_graphs" /\ calls' = calls + 1)
         => (/\ root'[G] = root[G]
             /\ tokens'[G] = tokens[G]
             /\ root'[G] \in DOMAIN node'[G]
             /\ \A i \in 1 .. Len(tokens'[G]) : tokens'[G][i] \in DOMAIN node'[G])]_vars

(* A successful merge of graphs with different token ids was followed by a
   failed one; the root and the tokens of self are still nodes of self. *)
C13_Witness ==
    /\ calls = 2 /\ last.op = "merge_graphs" /\ last.err # "none"
    /\ "m1" \in Nodes /\ "u1" \in OtherTokens
    /\ Len(tokens[G]) >= 2
    /\ SelfTokens \subseteq Nodes
    /\ root[G] \in Nodes

----------------------------------------------------------------------------
(* C14: on a graph with at least two tokens, a second call of
   add_precedence_relations right after a successful one leaves the edges of
   the graph, with their keys, layers and attributes, as the first call left
   them. *)
C14_PrecedenceTwiceIsOnce ==
    [][(/\ last'.op = "add_precedence_relations" /\ calls' = calls + 1
        /\ last.op = "add_precedence_relations" /\ last.err = "none"
        /\ Len(tokens[G]) >= 2)
         => adj'[G] = adj[G]]_vars

----------------------------------------------------------------------------
PrecedencePairs ==
    {<<root[G], tokens[G][1]>>} \cup
    {<<tokens[G][i], tokens[G][i + 1]>> : i \in 1 .. (Len(tokens[G]) - 1)}

PrecedenceEdge ==
    [layers |-> {ns[G], ns[G] \o ":precedence"},
     edge_type |-> EdgeTypes.precedence_relation]

NodesUnchanged ==
    /\ node'[G] = node[G]
    /\ \A n \in Nodes : heap'[node[G][n]] = heap[node[G][n]]

(* C20: add_precedence_relations on a graph with n >= 2 tokens and no edge
   yet between the root and the first token or between a token and the next
   adds exactly n edges, root -> t0 and t(i) -> t(i+1), each with layers
   {ns, ns:precedence} and edge_type precedes, adds no node and changes no node
   attribute; with fewer than two tokens it fails and changes nothing. *)
C20_PrecedenceChainShape ==
    [][(last'.op = "add_precedence_relations" /\ calls' = calls + 1)
         => IF Len(tokens[G]) < 2
            THEN last'.err = "AssertionError" /\ adj'[G] = adj[G] /\ NodesUnchanged
            ELSE (\A p \in PrecedencePairs : KeyDict(World, G, p[1], p[2]) = {})
                 => (/\ last'.err = "none"
                     /\ DOMAIN adj'[G] =
                          DOMAIN adj[G] \cup {<<p[1], p[2], 0>> : p \in PrecedencePairs}
                     /\ Cardinality(DOMAIN adj'[G]) =
                          Cardinality(DOMAIN adj[G]) + Len(tokens[G])
                     /\ \A p \in PrecedencePairs :
                          adj'[G][<<p[1], p[2], 0>>] = PrecedenceEdge
                     /\ \A e \in DOMAIN adj[G] : adj'[G][e] = adj[G][e]
                     /\ NodesUnchanged)]_vars

(* Precedence relations were built on a graph of three tokens. *)
C20_Witness ==
    /\ last.op = "add_precedence_relations" /\ last.err = "none" /\ calls = 1
    /\ Len(tokens[G]) = 3
    /\ {<<"root", "t1", 0>>, <<"t1", "t2", 0>>, <<"t2", "t3", 0>>} = Edges

----------------------------------------------------------------------------
(* Reading the graph for the query functions. *)
AllTyped == \A e \in Edges : "edge_type" \in DOMAIN EdgeDict(e)
NoSelfLoops == \A e \in Edges : e[1] # e[2]
TaggedPointing(e) ==
    "edge_type" \in DOMAIN EdgeDict(e) /\ EdgeDict(e)["edge_type"] = EdgeTypes.pointing_relation
PointingEdges == {<<e[1], e[2]>> : e \in {x \in Edges : TaggedPointing(x)}}

(* The paths along E from a node without incoming edge to a node without
   outgoing edge. *)
MaximalChains(E) ==
    LET V == {p[1] : p \in E} \cup {p[2] : p \in E}
    IN {p \in UNION {[1 .. k -> V] : k \in 2 .. (Cardinality(E) + 1)} :
          /\ \A i \in 1 .. (Len(p) - 1) : <<p[i], p[i + 1]>> \in E
          /\ ~ \E q \in E : q[2] = p[1]
          /\ ~ \E q \in E : q[1] = p[Len(p)]}

(* C15: for an acyclic set of pointing edges get_pointing_chains returns
   exactly the paths from a node without incoming pointing edge to a node
   without outgoing pointing edge, each once. *)
C15_ChainsAreTheMaximalPaths ==
    last.op = "get_pointing_chains"
      => /\ last.err = "none"
         /\ Range(last.chains) = MaximalChains(PointingEdges)
         /\ Len(last.chains) = Cardinality(MaximalChains(PointingEdges))

WithoutSelfLoops(w) ==
    [w EXCEPT !.adj[G] = [e \in {x \in DOMAIN w.adj[G] : x[1] # x[2]} |-> w.adj[G][e]]]

(* C16: on a graph whose edges all have an edge_type and form no cycle but
   self-loops, get_span(node) ends without error and returns the span it
   returns on the graph without the self-loop edges. *)
C16_SpanSkipsSelfLoops ==
    (last.op = "get_span" /\ AllTyped)
      => /\ last.err = "none"
         /\ last.span = get_span(WithoutSelfLoops(World), G, Doc, last.node_id,
                                 SetToSeq(DOMAIN WithoutSelfLoops(World).adj[G]), 1).span

(* C17: the list get_span returns holds each token id at most once. *)
C17_SpanHasNoDuplicates ==
    (last.op = "get_span" /\ last.err = "none")
      => \A i, j \in 1 .. Len(last.span) : last.span[i] = last.span[j] => i = j

(* C18: get_annotation_layers returns every layer that is in the layers of a
   node or of an edge of the graph, and nothing else. *)
C18_LayersOfNodesAndEdges ==
    last.op = "get_annotation_layers"
      => last.layers = UNION {NodeDict(n)["layers"] : n \in Nodes}
                         \cup UNION {EdgeDict(e)["layers"] : e \in Edges}

IsToken(n) == n \in SelfTokens
TokensCarryTokenAttr ==
    \A n \in Nodes : IsToken(n) <=> TokenKey(ns[G], "token") \in DOMAIN NodeDict(n)
SpanStep(S) ==
    S \cup {e[2] : e \in {x \in Edges : x[1] \in S /\ ~IsToken(x[1]) /\ ~TaggedPointing(x)}}
RECURSIVE SpanReach(_, _)
SpanReach(S, k) == IF k = 0 THEN S ELSE SpanReach(SpanStep(S), k - 1)
SpanTargets(n) ==
    SpanReach({e[2] : e \in {x \in Edges : x[1] = n /\ ~TaggedPointing(x)}}, Cardinality(Nodes))

(* C19: on an acyclic graph whose edges all have an edge_type and whose
   tokens carry the ns:token attribute, get_span(node) ends without error and
   holds a node t exactly when t is a token and there is a path from node to t
   of edges not tagged as pointing relation whose intermediate nodes are no
   tokens. *)
C19_SpanContent ==
    (last.op = "get_span" /\ AllTyped /\ NoSelfLoops /\ TokensCarryTokenAttr)
      => /\ last.err = "none"
         /\ \A t \in Nodes :
              t \in Range(last.span) <=> (IsToken(t) /\ t \in SpanTargets(last.node_id))

(* get_span(m1) = [t1] on a graph where m1 dominates t1, t2 follows t1 by a
   precedence edge and m1 points to t2. *)
C19_Witness ==
    /\ last.op = "get_span" /\ last.err = "none" /\ last.node_id = "m1"
    /\ last.span = <<"t1">>
    /\ <<"m1", "t2">> \in PointingEdges
    /\ \E e \in Edges : e[1] = "t1" /\ e[2] = "t2"
    /\ Cardinality(Edges) = 3

----------------------------------------------------------------------------
(* The id a node of other has in self after a merge: a token of other at a
   position self has a token for gets the id of that self token. *)
Remap(x) ==
    IF \E i \in 1 .. Len(tokens[G]) : i <= Len(tokens["other"]) /\ tokens["other"][i] = x
    THEN tokens[G][CHOOSE i \in 1 .. Len(tokens[G]) :
                     i <= Len(tokens["other"]) /\ tokens["other"][i] = x]
    ELSE x

(* C21: after a successful merge_graphs, each token of self has the layers it
   had united with the layers of other's token at its position and keeps every
   attribute it had that other's token does not set; for every edge x -> y of
   other, self has an edge remap(x) -> remap(y) with that edge's layers and
   attributes; every edge self had is still there under its key with its
   layers and attributes. *)
C21_MergeUnitesTokensAndCarriesEdges ==
    [][(last'.op = "merge_graphs" /\ calls' = calls + 1 /\ last'.err = "none")
         => (/\ \A i \in 1 .. Len(tokens[G]) :
                  LET before == heap[node[G][tokens[G][i]]]
                      remote == heap[node["other"][tokens["other"][i]]]
                      after == heap'[node'[G][tokens[G][i]]]
                  IN /\ after["layers"] = before["layers"] \cup remote["layers"]
                     /\ \A k \in (DOMAIN before) \ (DOMAIN remote) :
                          k \in DOMAIN after /\ after[k] = before[k]
             /\ \A e \in DOMAIN adj["other"] :
                  \E x \in DOMAIN adj'[G] :
                     /\ x[1] = Remap(e[1]) /\ x[2] = Remap(e[2])
                     /\ adj'[G][x] = adj["other"][e]
             /\ \A e \in DOMAIN adj[G] :
                  e \in DOMAIN adj'[G] /\ adj'[G][e] = adj[G][e])]_vars

(* A merge has succeeded on a graph that had an edge from its root to its
   first token: the token has the layers of both graphs, and the edges of
   other's markable lead to it. *)
C21_Witness ==
    /\ last.op = "merge_graphs" /\ last.err = "none"
    /\ {<<"root", "t1", 0>>, <<"m1", "t1", 0>>, <<"m1", "t1", 1>>} \subseteq Edges
    /\ {"ns1", "ns1:token", "ns2", "ns2:token"} \subseteq NodeDict("t1")["layers"]
    /\ {"ns1:token", "ns2:token"} \subseteq DOMAIN NodeDict("t1")

----------------------------------------------------------------------------
WorldNext == [heap |-> heap', node |-> node', adj |-> adj']
DocNext == [ns |-> ns', root |-> root', tokens |-> tokens']

(* C22: after a successful merge_graphs every id of other.tokens names a node
   of other, and other.get_tokens() yields the token strings it yielded before
   the merge, in the same order. *)
C22_OtherKeepsItsTokens ==
    [][(last'.op = "merge_graphs" /\ calls' = calls + 1 /\ last'.err = "none")
         => (/\ Len(tokens'["other"]) = Len(tokens["other"])
             /\ \A i \in 1 .. Len(tokens'["other"]) :
                  /\ tokens'["other"][i] \in DOMAIN node'["other"]
                  /\ HasToken(WorldNext, "other", DocNext, i, "token")
                  /\ TokenStr(WorldNext, "other", DocNext, i, "token") =
                       TokenStr(World, "other", Doc, i, "token"))]_vars

----------------------------------------------------------------------------
(* The pairs of neighbours in the chains. *)
ChainPairs(chains) ==
    UNION {{<<chains[c][i], chains[c][i + 1]>> : i \in 1 .. (Len(chains[c]) - 1)} :
             c \in 1 .. Len(chains)}

(* C23: on a graph whose edges all have an edge_type, get_pointing_chains
   builds its chains from exactly the edges whose edge_type is
   EdgeTypes.pointing_relation, the edges get_span ignores: every such edge
   a -> b is a step of some returned chain, and every step of a returned chain
   is such an edge. *)
C23_ChainsUseTaggedPointingEdges ==
    (last.op = "get_pointing_chains" /\ AllTyped)
      => /\ last.err = "none"
         /\ ChainPairs(last.chains) = PointingEdges

EdgesOfType(u, v, t) ==
    {e \in Edges : /\ e[1] = u /\ e[2] = v
                   /\ "edge_type" \in DOMAIN EdgeDict(e) /\ EdgeDict(e)["edge_type"] = t}

(* C25: on every graph built through the API, with or without edges that
   have no edge_type, select_edges_by_edgetype(g, t), read to its end on a
   graph that no call changes meanwhile, ends without error and has yielded
   exactly the edges whose edge_type is t, once each, and get_span(g, n) on a
   graph without self-loops ends without error. *)
C25_TypeQueriesAreTotal ==
    /\ gen.state = "done"
         => /\ gen.err = "StopIteration"
            /\ \A u, v \in Nodes :
                 Cardinality({i \in 1 .. Len(gen.edges) : gen.edges[i] = <<u, v>>}) =
                   Cardinality(EdgesOfType(u, v, gen.edge_type))
    /\ (last.op = "get_span" /\ NoSelfLoops) => last.err = "none"

----------------------------------------------------------------------------
(* C24: a call add_node(n, layers, attr_dict=d, ...) leaves the layers and
   attributes of every node other than n and of every edge as they were, also
   when d was passed to the add_node call that created the other node. *)
C24_AddNodeTouchesOnlyItsNode ==
    [][(last'.op = "add_node" /\ calls' = calls + 1)
         => (/\ \A m \in Nodes \ {last'.n} :
                  m \in DOMAIN node'[G] /\ heap'[node'[G][m]] = heap[node[G][m]]
             /\ adj'[G] = adj[G])]_vars

====
